---------------------------- MODULE Spec2Model ----------------------------
(***************************************************************************)
(* A model of homework.py: the Training family (Running, SportsWalking,    *)
(* Swimming), read_package, main and the loop of the __main__ block.       *)
(*                                                                         *)
(* The numbers of the program are Python floats (IEEE 754 binary64) and    *)
(* small Python ints.  Every number is modelled as a binary64 value with   *)
(* its exact mantissa and exponent; the arithmetic rounds to nearest, ties *)
(* to even, overflows to inf and underflows through the subnormals to 0,   *)
(* as the interpreter's does.  The ints the model uses are below 2^53, so  *)
(* an int and the float it converts to are the same number and int         *)
(* arithmetic on them is exact in binary64 too.  Mantissas do not fit a    *)
(* machine word of the model checker, so naturals are sequences of limbs.  *)
(***************************************************************************)
EXTENDS Integers, Sequences, FiniteSets, TLC

(***************************************************************************)
(* Naturals of any size: little-endian limbs base 2^15, no leading zero.   *)
(***************************************************************************)
LimbBits == 15
Base == 2^LimbBits

Max(a, b) == IF a >= b THEN a ELSE b
Min(a, b) == IF a <= b THEN a ELSE b

RECURSIVE Norm(_)
Norm(a) ==
    IF a = <<>> THEN <<>>
    ELSE IF a[Len(a)] = 0 THEN Norm(SubSeq(a, 1, Len(a) - 1))
    ELSE a

RECURSIVE NatOfInt(_)
NatOfInt(n) == IF n = 0 THEN <<>> ELSE <<n % Base>> \o NatOfInt(n \div Base)

Limb(a, i) == IF i <= Len(a) THEN a[i] ELSE 0

\* a + b + c from limb i on (c is the carry in)
RECURSIVE AddFrom(_, _, _, _)
AddFrom(a, b, i, c) ==
    IF i > Len(a) /\ i > Len(b)
    THEN IF c = 0 THEN <<>> ELSE <<c>>
    ELSE LET x == Limb(a, i) + Limb(b, i) + c
         IN  <<x % Base>> \o AddFrom(a, b, i + 1, x \div Base)

Add(a, b) == AddFrom(a, b, 1, 0)

\* a - b - c from limb i on, for a >= b (c is the borrow in)
RECURSIVE SubFrom(_, _, _, _)
SubFrom(a, b, i, c) ==
    IF i > Len(a) THEN <<>>
    ELSE LET x == a[i] - Limb(b, i) - c
         IN  <<x % Base>> \o SubFrom(a, b, i + 1, IF x < 0 THEN 1 ELSE 0)

Sub(a, b) == Norm(SubFrom(a, b, 1, 0))

\* -1, 0, 1 as a < b, a = b, a > b, comparing from limb i down
RECURSIVE CmpFrom(_, _, _)
CmpFrom(a, b, i) ==
    IF i = 0 THEN 0
    ELSE IF a[i] < b[i] THEN -1
    ELSE IF a[i] > b[i] THEN 1
    ELSE CmpFrom(a, b, i - 1)

Cmp(a, b) ==
    IF Len(a) < Len(b) THEN -1
    ELSE IF Len(a) > Len(b) THEN 1
    ELSE CmpFrom(a, b, Len(a))

\* a * k + c from limb i on, for a limb k
RECURSIVE MulSmallFrom(_, _, _, _)
MulSmallFrom(a, k, i, c) ==
    IF i > Len(a)
    THEN IF c = 0 THEN <<>> ELSE <<c>>
    ELSE LET x == a[i] * k + c
         IN  <<x % Base>> \o MulSmallFrom(a, k, i + 1, x \div Base)

MulSmall(a, k) == IF k = 0 THEN <<>> ELSE MulSmallFrom(a, k, 1, 0)

RECURSIVE MulFrom(_, _, _)
MulFrom(a, b, i) ==
    IF i > Len(a) THEN <<>>
    ELSE Add(MulSmall(b, a[i]),
             LET r == MulFrom(a, b, i + 1) IN IF r = <<>> THEN <<>> ELSE <<0>> \o r)

Mul(a, b) == IF a = <<>> \/ b = <<>> THEN <<>> ELSE MulFrom(a, b, 1)

\* <<floor(a / k), a mod k>> for a limb k >= 1, from limb i down with remainder r
RECURSIVE DivSmallFrom(_, _, _, _)
DivSmallFrom(a, k, i, r) ==
    IF i = 0 THEN <<<<>>, r>>
    ELSE LET x    == r * Base + a[i]
             rest == DivSmallFrom(a, k, i - 1, x % k)
         IN  <<rest[1] \o <<x \div k>>, rest[2]>>

DivSmall(a, k) == Norm(DivSmallFrom(a, k, Len(a), 0)[1])
ModSmall(a, k) == DivSmallFrom(a, k, Len(a), 0)[2]

Zeros(n) == [i \in 1..n |-> 0]

\* a * 2^n
Shl(a, n) ==
    IF a = <<>> THEN <<>>
    ELSE Zeros(n \div LimbBits) \o MulSmall(a, 2^(n % LimbBits))

\* floor(a / 2^n)
Shr(a, n) ==
    IF n \div LimbBits >= Len(a) THEN <<>>
    ELSE DivSmall(SubSeq(a, n \div LimbBits + 1, Len(a)), 2^(n % LimbBits))

\* bit i (from 0) of a
Bit(a, i) == (Limb(a, i \div LimbBits + 1) \div 2^(i % LimbBits)) % 2

\* whether a mod 2^n = 0
LowZero(a, n) ==
    /\ \A i \in 1..Min(n \div LimbBits, Len(a)) : a[i] = 0
    /\ Limb(a, n \div LimbBits + 1) % 2^(n % LimbBits) = 0

RECURSIVE BitLenSmall(_)
BitLenSmall(k) == IF k = 0 THEN 0 ELSE 1 + BitLenSmall(k \div 2)

BitLen(a) ==
    IF a = <<>> THEN 0 ELSE LimbBits * (Len(a) - 1) + BitLenSmall(a[Len(a)])

IsOdd(a) == Limb(a, 1) % 2 = 1

\* a / 2^n rounded to the nearest natural, a tie to the even one
RoundShr(a, n) ==
    IF n = 0 THEN a
    ELSE LET q  == Shr(a, n)
             up == /\ Bit(a, n - 1) = 1
                   /\ (~LowZero(a, n - 1) \/ IsOdd(q))
         IN  IF up THEN AddFrom(q, <<>>, 1, 1) ELSE q

(***************************************************************************)
(* binary64.  A finite value is (-1)^neg * m * 2^e, with m below 2^53 and  *)
(* either m >= 2^52 (normal) or e = MinExp (subnormal); zero is m = <<>>.  *)
(***************************************************************************)
MantBits == 53
MinExp == -1074
MaxExp == 971

Zero(neg) == [cls |-> "fin", neg |-> neg, m |-> <<>>, e |-> 0]
Inf(neg) == [cls |-> "inf", neg |-> neg, m |-> <<>>, e |-> 0]
NaN == [cls |-> "nan", neg |-> FALSE, m |-> <<>>, e |-> 0]
\* an exception raised while a value was being computed
Raise(exc) == [cls |-> "raise", exc |-> exc]

IsRaise(x) == x.cls = "raise"
IsZero(x) == x.cls = "fin" /\ x.m = <<>>

Pack(neg, m, e) ==
    IF m = <<>> THEN Zero(neg)
    ELSE IF e > MaxExp THEN Inf(neg)
    ELSE [cls |-> "fin", neg |-> neg, m |-> m, e |-> e]

\* the binary64 nearest to (-1)^neg * M * 2^E
Round(neg, M, E) ==
    IF M = <<>> THEN Zero(neg)
    ELSE LET e1 == Max(E + BitLen(M) - MantBits, MinExp)
         IN  IF e1 <= E THEN Pack(neg, Shl(M, E - e1), e1)
             ELSE LET q == RoundShr(M, e1 - E)
                  IN  IF BitLen(q) > MantBits
                      THEN Pack(neg, Shr(q, 1), e1 + 1)
                      ELSE Pack(neg, q, e1)

FromInt(n) == Round(n < 0, NatOfInt(IF n < 0 THEN -n ELSE n), 0)

FMul(x, y) ==
    IF IsRaise(x) THEN x
    ELSE IF IsRaise(y) THEN y
    ELSE IF x.cls = "nan" \/ y.cls = "nan" THEN NaN
    ELSE IF x.cls = "inf" \/ y.cls = "inf"
         THEN IF IsZero(x) \/ IsZero(y) THEN NaN ELSE Inf(x.neg # y.neg)
    ELSE Round(x.neg # y.neg, Mul(x.m, y.m), x.e + y.e)

\* the position of the top bit of a finite nonzero x
Top(x) == x.e + BitLen(x.m)

\* y as x + y sees it: a y that lies wholly below a quarter of x's last place
\* only says on which side of x the sum is, and so does the quarter of a quarter
Sticky(x, y) ==
    IF Top(x) - Top(y) > MantBits + 2
    THEN [y EXCEPT !.m = <<1>>, !.e = x.e - 4]
    ELSE y

FAdd(x, y) ==
    IF IsRaise(x) THEN x
    ELSE IF IsRaise(y) THEN y
    ELSE IF x.cls = "nan" \/ y.cls = "nan" THEN NaN
    ELSE IF x.cls = "inf"
         THEN IF y.cls = "inf" /\ x.neg # y.neg THEN NaN ELSE x
    ELSE IF y.cls = "inf" THEN y
    ELSE IF IsZero(x) /\ IsZero(y) THEN Zero(x.neg /\ y.neg)
    ELSE IF IsZero(x) THEN y
    ELSE IF IsZero(y) THEN x
    ELSE LET x1 == Sticky(y, x)
             y1 == Sticky(x, y)
             e  == Min(x1.e, y1.e)
             A  == Shl(x1.m, x1.e - e)
             B  == Shl(y1.m, y1.e - e)
             c  == Cmp(A, B)
         IN  IF x.neg = y.neg THEN Round(x.neg, Add(A, B), e)
             ELSE IF c = 0 THEN Zero(FALSE)
             ELSE IF c > 0 THEN Round(x.neg, Sub(A, B), e)
             ELSE Round(y.neg, Sub(B, A), e)

\* the largest k with k * v <= r, given an estimate that is not below it
RECURSIVE Digit(_, _, _)
Digit(r, v, est) ==
    IF Cmp(MulSmall(v, est), r) > 0 THEN Digit(r, v, est - 1) ELSE est

\* <<floor(r / v), r mod v>> for r < v * Base, v of DivLimbs limbs with its top
\* bit set: the quotient is one limb, estimated from the top limbs of r
DivStep(r, v) ==
    LET n   == Len(v)
        est == Min(Base - 1, (Limb(r, n + 1) * Base + Limb(r, n)) \div v[n])
        k   == Digit(r, v, est)
    IN  <<k, Sub(r, MulSmall(v, k))>>

\* <<floor(r * Base^(n-1) / v), whether a remainder is left>> by long division,
\* one limb of the quotient a step, the limbs so far in q
RECURSIVE LongDiv(_, _, _, _)
LongDiv(r, v, n, q) ==
    IF n = 0 THEN <<Norm(q), r # <<>>>>
    ELSE LET s == DivStep(r, v)
         IN  LongDiv(IF s[2] = <<>> THEN <<>> ELSE <<0>> \o s[2], v, n - 1,
                     <<s[1]>> \o q)

\* the limbs that hold a mantissa
DivLimbs == (MantBits + LimbBits - 1) \div LimbBits

\* the quotient x / y of the format, for y # 0
Quotient(x, y) ==
    IF x.cls = "nan" \/ y.cls = "nan" THEN NaN
    ELSE IF x.cls = "inf"
         THEN IF y.cls = "inf" THEN NaN ELSE Inf(x.neg # y.neg)
    ELSE IF y.cls = "inf" \/ IsZero(x) THEN Zero(x.neg # y.neg)
    ELSE LET w  == DivLimbs * LimbBits
             sx == w - BitLen(x.m)
             sy == w - BitLen(y.m)
             qs == LongDiv(Shl(x.m, sx), Shl(y.m, sy), DivLimbs + 1, <<>>)
             q2 == AddFrom(qs[1], qs[1], 1, IF qs[2] THEN 1 ELSE 0)
         IN  Round(x.neg # y.neg, q2, (x.e - sx) - (y.e - sy) - w - 1)

\* A division that follows IEEE 754 on a zero divisor (inf, or nan for 0/0)
\* where Python raises: the variant the error-handling properties rule out.
FDiv_IEEE(x, y) ==
    IF IsRaise(x) THEN x
    ELSE IF IsRaise(y) THEN y
    ELSE IF IsZero(y)
         THEN IF IsZero(x) \/ x.cls = "nan" THEN NaN ELSE Inf(x.neg # y.neg)
    ELSE Quotient(x, y)

\* Python's float division: a zero divisor raises before anything else
FDiv(x, y) ==
    IF IsRaise(x) THEN x
    ELSE IF IsRaise(y) THEN y
    ELSE IF IsZero(y) THEN Raise("ZeroDivisionError")
    ELSE Quotient(x, y)

\* x ** 2: Python raises OverflowError when a finite x overflows
FSquare(x) ==
    IF IsRaise(x) THEN x
    ELSE IF x.cls = "fin" /\ FMul(x, x).cls = "inf" THEN Raise("OverflowError")
    ELSE FMul(x, x)

\* x > 0, x < 0 as Python compares (false for nan)
FPositive(x) == x.cls \in {"fin", "inf"} /\ ~x.neg /\ ~IsZero(x)
FNegative(x) == x.cls \in {"fin", "inf"} /\ x.neg /\ ~IsZero(x)

\* x compared with y as Python compares floats; nan compares false with all
FLess(x, y) ==
    /\ x.cls # "nan" /\ y.cls # "nan"
    /\ LET d == FAdd(x, [y EXCEPT !.neg = ~y.neg])
       IN  IF d.cls = "nan" THEN FALSE ELSE FNegative(d)

FGeq(x, y) == x.cls # "nan" /\ y.cls # "nan" /\ ~FLess(x, y)

(***************************************************************************)
(* format(x, '0.3f'): the decimal nearest to x with three digits after the *)
(* point, a tie to the even one, the sign kept even when the digits are 0. *)
(***************************************************************************)
FormatDigits == 3

DecimalDigit == <<"0", "1", "2", "3", "4", "5", "6", "7", "8", "9">>

RECURSIVE DecStr(_)
DecStr(a) ==
    IF a = <<>> THEN ""
    ELSE DecStr(DivSmall(a, 10)) \o DecimalDigit[ModSmall(a, 10) + 1]

RECURSIVE FracStr(_, _)
FracStr(k, n) ==
    IF n = 0 THEN "" ELSE FracStr(k \div 10, n - 1) \o DecimalDigit[(k % 10) + 1]

Format03f(x) ==
    IF x.cls = "nan" THEN "nan"
    ELSE IF x.cls = "inf" THEN (IF x.neg THEN "-inf" ELSE "inf")
    ELSE LET k  == MulSmall(x.m, 10^FormatDigits)
             T  == IF x.e >= 0 THEN Shl(k, x.e) ELSE RoundShr(k, -x.e)
             ip == DivSmall(T, 10^FormatDigits)
         IN  (IF x.neg THEN "-" ELSE "")
                 \o (IF ip = <<>> THEN "0" ELSE DecStr(ip))
                 \o "." \o FracStr(ModSmall(T, 10^FormatDigits), FormatDigits)

(***************************************************************************)
(* The program.  A value carries its kind in cls: a float ("fin", "inf",   *)
(* "nan"), a raised exception ("raise"), None, or an object of a class.    *)
(***************************************************************************)
None == [cls |-> "None"]

\* a float literal n/d written in decimal: the binary64 nearest to it
Literal(n, d) == FDiv(FromInt(n), FromInt(d))

\* class InfoMessage: the dataclass and get_message.  The Cyrillic words of
\* MESSAGE between the fields are fixed text; the line is kept as its fields.
InfoMessage(training_type, duration, distance, speed, calories) ==
    IF IsRaise(distance) THEN distance
    ELSE IF IsRaise(speed) THEN speed
    ELSE IF IsRaise(calories) THEN calories
    ELSE [cls |-> "InfoMessage", training_type |-> training_type,
          duration |-> duration, distance |-> distance, speed |-> speed,
          calories |-> calories]

get_message(self) ==
    <<self.training_type, Format03f(self.duration), Format03f(self.distance),
      Format03f(self.speed), Format03f(self.calories)>>

\* class attributes, looked up through the class of self
M_IN_KM == 1000
MINUTES_IN_HOUR == 60
CALORIES_MEAN_SPEED_MULTIPLIER == 18
CALORIES_MEAN_SPEED_SHIFT == Literal(179, 100)
WEIGHT_MULTIPLAYER == Literal(35, 1000)
CALORIES_MULTIPLAYER == Literal(29, 1000)
KM_H_IN_M_S == Literal(278, 1000)
SM_IN_M == 100
OFFSET_SPEED == Literal(11, 10)
SPEED_MULTIPLAYER == 2

LEN_STEP(self) ==
    IF self.cls = "Swimming" THEN Literal(138, 100) ELSE Literal(65, 100)

\* Training.__init__ and the two that extend it
Training(cls, action, duration, weight) ==
    [cls |-> cls, action |-> action, duration |-> duration, weight |-> weight]

Running(action, duration, weight) ==
    Training("Running", action, duration, weight)

SportsWalking(action, duration, weight, height) ==
    [cls |-> "SportsWalking", action |-> action, duration |-> duration,
     weight |-> weight, height |-> height]

Swimming(action, duration, weight, length_pool, count_pool) ==
    [cls |-> "Swimming", action |-> action, duration |-> duration,
     weight |-> weight, length_pool |-> length_pool, count_pool |-> count_pool]

\* get_distance that leaves the metres unconverted
get_distance_Metres(self) == FMul(self.action, LEN_STEP(self))

get_distance(self) ==
    FDiv(FMul(self.action, LEN_STEP(self)), FromInt(M_IN_KM))

Training_get_mean_speed(self) == FDiv(get_distance(self), self.duration)

\* Swimming without its own get_mean_speed: the inherited one
Swimming_get_mean_speed_Inherited(self) == Training_get_mean_speed(self)

Swimming_get_mean_speed(self) ==
    LET distance == FMul(self.length_pool, self.count_pool)
    IN  FDiv(FDiv(distance, FromInt(M_IN_KM)), self.duration)

get_mean_speed(self) ==
    IF self.cls = "Swimming" THEN Swimming_get_mean_speed(self)
    ELSE Training_get_mean_speed(self)

\* the running formula with the shift subtracted
Running_get_spent_calories_Minus(self) ==
    LET minutes == FMul(self.duration, FromInt(MINUTES_IN_HOUR))
        shift   == [CALORIES_MEAN_SPEED_SHIFT EXCEPT !.neg = TRUE]
    IN  FMul(FDiv(FMul(FAdd(FMul(FromInt(CALORIES_MEAN_SPEED_MULTIPLIER),
                                 get_mean_speed(self)),
                            shift),
                       self.weight),
                  FromInt(M_IN_KM)),
             minutes)

Running_get_spent_calories(self) ==
    LET minutes == FMul(self.duration, FromInt(MINUTES_IN_HOUR))
    IN  FMul(FDiv(FMul(FAdd(FMul(FromInt(CALORIES_MEAN_SPEED_MULTIPLIER),
                                 get_mean_speed(self)),
                            CALORIES_MEAN_SPEED_SHIFT),
                       self.weight),
                  FromInt(M_IN_KM)),
             minutes)

\* the walking formula with the speed left in km/h
SportsWalking_get_spent_calories_KmH(self) ==
    LET avg_speed   == get_mean_speed(self)
        height_in_m == FDiv(self.height, FromInt(SM_IN_M))
    IN  IF IsRaise(avg_speed) THEN avg_speed
        ELSE IF IsRaise(height_in_m) THEN height_in_m
        ELSE FMul(FMul(FAdd(FMul(WEIGHT_MULTIPLAYER, self.weight),
                            FMul(FMul(FDiv(FSquare(avg_speed), height_in_m),
                                      CALORIES_MULTIPLAYER),
                                 self.weight)),
                       self.duration),
                  FromInt(MINUTES_IN_HOUR))

SportsWalking_get_spent_calories(self) ==
    LET avg_speed   == FMul(get_mean_speed(self), KM_H_IN_M_S)
        height_in_m == FDiv(self.height, FromInt(SM_IN_M))
    IN  IF IsRaise(avg_speed) THEN avg_speed
        ELSE IF IsRaise(height_in_m) THEN height_in_m
        ELSE FMul(FMul(FAdd(FMul(WEIGHT_MULTIPLAYER, self.weight),
                            FMul(FMul(FDiv(FSquare(avg_speed), height_in_m),
                                      CALORIES_MULTIPLAYER),
                                 self.weight)),
                       self.duration),
                  FromInt(MINUTES_IN_HOUR))

Swimming_get_spent_calories(self) ==
    LET multiplayer == FMul(FMul(FromInt(SPEED_MULTIPLAYER), self.weight),
                            self.duration)
    IN  FMul(FAdd(get_mean_speed(self), OFFSET_SPEED), multiplayer)

get_spent_calories(self) ==
    CASE self.cls = "Running" -> Running_get_spent_calories(self)
      [] self.cls = "SportsWalking" -> SportsWalking_get_spent_calories(self)
      [] self.cls = "Swimming" -> Swimming_get_spent_calories(self)
      [] OTHER -> Raise("NotImplementedError")

show_training_info(self) ==
    InfoMessage(self.cls, self.duration, get_distance(self),
                get_mean_speed(self), get_spent_calories(self))

\* the call with SportsWalking's height given a default value
Call_DefaultHeight(class, data) ==
    CASE class = "Swimming" ->
           IF Len(data) = 5
           THEN Swimming(data[1], data[2], data[3], data[4], data[5])
           ELSE Raise("TypeError")
      [] class = "Running" ->
           IF Len(data) = 3 THEN Running(data[1], data[2], data[3])
           ELSE Raise("TypeError")
      [] class = "SportsWalking" ->
           IF Len(data) = 4
           THEN SportsWalking(data[1], data[2], data[3], data[4])
           ELSE IF Len(data) = 3
           THEN SportsWalking(data[1], data[2], data[3], FromInt(180))
           ELSE Raise("TypeError")

\* training_type(*data): the class called on the list, one field a parameter
Call(class, data) ==
    CASE class = "Swimming" ->
           IF Len(data) = 5
           THEN Swimming(data[1], data[2], data[3], data[4], data[5])
           ELSE Raise("TypeError")
      [] class = "Running" ->
           IF Len(data) = 3 THEN Running(data[1], data[2], data[3])
           ELSE Raise("TypeError")
      [] class = "SportsWalking" ->
           IF Len(data) = 4
           THEN SportsWalking(data[1], data[2], data[3], data[4])
           ELSE Raise("TypeError")

\* the mapping with two classes exchanged
training_types_Swapped ==
    [SWM |-> "Swimming", RUN |-> "SportsWalking", WLK |-> "Running"]

training_types ==
    [SWM |-> "Swimming", RUN |-> "Running", WLK |-> "SportsWalking"]

\* read_package with a plain training_types[workout_type]
read_package_KeyError(workout_type, data) ==
    IF workout_type \in DOMAIN training_types
    THEN Call(training_types[workout_type], data)
    ELSE Raise("KeyError")

read_package(workout_type, data) ==
    IF workout_type \in DOMAIN training_types
    THEN Call(training_types[workout_type], data)
    ELSE Raise("ValueError")

(***************************************************************************)
(* The inputs: the three packages of the __main__ block, each with one     *)
(* field changed at a time, cut short and made longer, under every type    *)
(* code.  Tiny is 5e-324, the smallest positive float.                     *)
(***************************************************************************)
MaxFields == 6
MaxPackages == 2
MaxShows == 2

Tiny == [cls |-> "fin", neg |-> FALSE, m |-> <<1>>, e |-> MinExp]

Floats(ints) == [k \in DOMAIN ints |-> FromInt(ints[k])]

MainPackages ==
    << <<"SWM", Floats(<<720, 1, 80, 25, 40>>)>>,
       <<"RUN", Floats(<<15000, 1, 75>>)>>,
       <<"WLK", Floats(<<9000, 1, 75, 180>>)>> >>

MainData == {MainPackages[k][2] : k \in DOMAIN MainPackages}

\* other values of a field: action, duration, weight, height or length_pool,
\* count_pool
OtherValues(k) ==
    CASE k = 1 -> {FromInt(1)}
      [] k = 2 -> {FromInt(0), FromInt(2)}
      [] k = 3 -> {FromInt(-75), Tiny}
      [] k = 4 -> {FromInt(0)}
      [] OTHER -> {FromInt(1)}

Changed(d) == {[d EXCEPT ![k] = v] : <<k, v>> \in
                 UNION {{k} \X OtherValues(k) : k \in DOMAIN d}}

Resized(d) ==
    {SubSeq(d, 1, n) : n \in 0..Len(d)}
        \cup {d \o [k \in 1..n |-> FromInt(1)] : n \in 1..(MaxFields - Len(d))}

DataSet == UNION {Changed(d) \cup Resized(d) : d \in MainData}

WorkoutTypes == {"SWM", "RUN", "WLK", "XYZ", "run"}

(***************************************************************************)
(* State.  packages is the input and i the package at hand; training, info *)
(* are the variables of the caller; exc is the exception that ended the    *)
(* run; stdout the lines printed.  For a caller that holds one object and  *)
(* calls its methods: ret is what the last getter returned, first_info the *)
(* first summary and info the latest, shown their number, between whether  *)
(* a getter was called since the first summary.                            *)
(***************************************************************************)
VARIABLES packages, i, pc, training, exc, stdout, ret, info, first_info,
          shown, between

vars == <<packages, i, pc, training, exc, stdout, ret, info, first_info,
          shown, between>>

workout_type == packages[i][1]
data == packages[i][2]

Returned(op, val) == [cls |-> "ret", op |-> op, val |-> val]

InitCaller ==
    /\ i = 1
    /\ training = None
    /\ exc = "none"
    /\ stdout = <<>>
    /\ ret = None
    /\ info = None
    /\ first_info = None
    /\ shown = 0
    /\ between = FALSE

(***************************************************************************)
(* A caller of the module: read_package, then the methods of the object in *)
(* any order.                                                              *)
(***************************************************************************)
Init ==
    /\ packages \in {<<p>> : p \in WorkoutTypes \X DataSet}
    /\ pc = "read_package"
    /\ InitCaller

ReadPackage ==
    /\ pc = "read_package"
    /\ LET r == read_package(workout_type, data)
       IN  IF IsRaise(r)
           THEN /\ exc' = r.exc
                /\ pc' = "raised"
                /\ UNCHANGED training
           ELSE /\ training' = r
                /\ pc' = "ready"
                /\ UNCHANGED exc
    /\ UNCHANGED <<packages, i, stdout, ret, info, first_info, shown, between>>

GetDistance ==
    /\ pc = "ready"
    /\ ret' = Returned("get_distance", get_distance(training))
    /\ between' = (shown > 0)
    /\ UNCHANGED <<packages, i, pc, training, exc, stdout, info, first_info,
                   shown>>

GetMeanSpeed ==
    /\ pc = "ready"
    /\ ret' = Returned("get_mean_speed", get_mean_speed(training))
    /\ between' = (shown > 0)
    /\ UNCHANGED <<packages, i, pc, training, exc, stdout, info, first_info,
                   shown>>

\* get_spent_calories that keeps the minutes in self.duration
GetSpentCalories_Caching ==
    /\ pc = "ready"
    /\ ret' = Returned("get_spent_calories", get_spent_calories(training))
    /\ training' = [training EXCEPT
                      !.duration = FMul(@, FromInt(MINUTES_IN_HOUR))]
    /\ between' = (shown > 0)
    /\ UNCHANGED <<packages, i, pc, exc, stdout, info, first_info, shown>>

GetSpentCalories ==
    /\ pc = "ready"
    /\ ret' = Returned("get_spent_calories", get_spent_calories(training))
    /\ between' = (shown > 0)
    /\ UNCHANGED <<packages, i, pc, training, exc, stdout, info, first_info,
                   shown>>

ShowTrainingInfo ==
    /\ pc = "ready"
    /\ shown < MaxShows
    /\ info' = show_training_info(training)
    /\ first_info' = IF shown = 0 THEN info' ELSE first_info
    /\ shown' = shown + 1
    /\ UNCHANGED <<packages, i, pc, training, exc, stdout, ret, between>>

Next ==
    \/ ReadPackage
    \/ GetDistance
    \/ GetMeanSpeed
    \/ GetSpentCalories
    \/ ShowTrainingInfo

Spec == Init /\ [][Next]_vars

(***************************************************************************)
(* The __main__ block: for each package, read_package and then main.  An   *)
(* exception is caught nowhere and ends the run.                           *)
(***************************************************************************)
BatchPackages ==
    {MainPackages[k] : k \in DOMAIN MainPackages}
        \cup {<<"XYZ", Floats(<<1, 1, 1>>)>>,
              <<"WLK", Floats(<<9000, 1, 75>>)>>,
              <<"RUN", Floats(<<15000, 0, 75>>)>>}

RECURSIVE SeqsUpTo(_, _)
SeqsUpTo(S, n) ==
    IF n = 0 THEN {<<>>}
    ELSE LET shorter == SeqsUpTo(S, n - 1)
         IN  shorter \cup {Append(s, x) : <<s, x>> \in
                             {t \in shorter : Len(t) = n - 1} \X S}

InitMain ==
    /\ packages \in SeqsUpTo(BatchPackages, MaxPackages)
    /\ pc = IF packages = <<>> THEN "done" ELSE "read_package"
    /\ InitCaller

LoopReadPackage ==
    /\ pc = "read_package"
    /\ LET r == read_package(workout_type, data)
       IN  IF IsRaise(r)
           THEN /\ exc' = r.exc
                /\ pc' = "raised"
                /\ UNCHANGED training
           ELSE /\ training' = r
                /\ pc' = "main"
                /\ UNCHANGED exc
    /\ UNCHANGED <<packages, i, stdout, ret, info, first_info, shown, between>>

\* the loop with each package in a try block: a failure skips the package
LoopMain_Isolated ==
    /\ pc = "main"
    /\ \E r \in {show_training_info(training)} :
          /\ IF IsRaise(r)
             THEN UNCHANGED <<stdout, info>>
             ELSE /\ info' = r
                  /\ stdout' = Append(stdout, get_message(r))
          /\ i' = IF i < Len(packages) THEN i + 1 ELSE i
          /\ pc' = IF i < Len(packages) THEN "read_package" ELSE "done"
          /\ UNCHANGED exc
    /\ UNCHANGED <<packages, training, ret, first_info, shown, between>>

\* main(training), and the step of the loop to the next package
LoopMain ==
    /\ pc = "main"
    /\ \E r \in {show_training_info(training)} :
          IF IsRaise(r)
          THEN /\ exc' = r.exc
               /\ pc' = "raised"
               /\ UNCHANGED <<i, stdout, info>>
          ELSE /\ info' = r
               /\ stdout' = Append(stdout, get_message(r))
               /\ i' = IF i < Len(packages) THEN i + 1 ELSE i
               /\ pc' = IF i < Len(packages) THEN "read_package" ELSE "done"
               /\ UNCHANGED exc
    /\ UNCHANGED <<packages, training, ret, first_info, shown, between>>

NextMain == LoopReadPackage \/ LoopMain

SpecMain == InitMain /\ [][NextMain]_vars

(***************************************************************************)
(* The properties.                                                         *)
(***************************************************************************)
KindTags == {"SWM", "RUN", "WLK"}
KindArity == [SWM |-> 5, RUN |-> 3, WLK |-> 4]
KindName == [SWM |-> "Swimming", RUN |-> "Running", WLK |-> "SportsWalking"]

F(n) == FromInt(n)

\* lo/d < x < hi/d
Between(x, lo, hi, d) == FLess(Literal(lo, d), x) /\ FLess(x, Literal(hi, d))

\* C1: a type code that is none of SWM, RUN, WLK makes read_package raise
\* ValueError, whatever the fields and however many, and no object is made.
C1_UnknownTypeIsValueError ==
    (workout_type \notin KindTags /\ pc # "read_package")
        => (pc = "raised" /\ exc = "ValueError" /\ training = None)

C1_Witness ==
    /\ workout_type = "XYZ" /\ Len(data) = 5
    /\ pc = "raised" /\ exc = "ValueError"

\* C2: under a known type code read_package returns an object exactly when
\* the list has the arity of the class (RUN 3, WLK 4, SWM 5), each field the
\* parameter of its place; any other length raises TypeError and makes no
\* object.
C2_ArityIsExact ==
    (workout_type \in KindTags /\ pc # "read_package")
        => IF Len(data) = KindArity[workout_type]
           THEN /\ pc = "ready" /\ exc = "none"
                /\ training.action = data[1]
                /\ training.duration = data[2]
                /\ training.weight = data[3]
                /\ workout_type = "WLK" => training.height = data[4]
                /\ workout_type = "SWM" => /\ training.length_pool = data[4]
                                           /\ training.count_pool = data[5]
           ELSE pc = "raised" /\ exc = "TypeError" /\ training = None

C2_Witness ==
    /\ workout_type = "WLK" /\ Len(data) = 3
    /\ pc = "raised" /\ exc = "TypeError" /\ training = None

\* C3: the object read_package returns is of the class the type code selects,
\* and the training_type of its summary is the name of that class, whatever
\* the values of the fields.
C3_KindFollowsTypeCode ==
    pc = "ready"
        => /\ training.cls = KindName[workout_type]
           /\ info.cls = "InfoMessage"
                  => info.training_type = KindName[workout_type]

C3_Witness ==
    /\ workout_type = "WLK" /\ pc = "ready" /\ training.weight = Tiny
    /\ info.cls = "InfoMessage" /\ info.training_type = "SportsWalking"

\* C5: no getter and no summary changes a field of the object, and every
\* summary of an object equals its first, whatever getters ran in between.
C5_GettersChangeNothing ==
    pc = "ready"
        => /\ training = read_package(workout_type, data)
           /\ shown > 0 => info = first_info

C5_Witness ==
    /\ shown = 2 /\ between
    /\ ret.cls = "ret" /\ ret.op = "get_spent_calories"
    /\ info.cls = "InfoMessage" /\ info = first_info

RunningCalories ==
    /\ training.cls = "Running"
    /\ ret.cls = "ret" /\ ret.op = "get_spent_calories"
    /\ FPositive(training.duration)
    /\ FPositive(get_mean_speed(training))
    /\ FPositive(training.weight)

Run7 ==
    /\ workout_type = "RUN" /\ data = Floats(<<15000, 1, 75>>)
    /\ info.cls = "InfoMessage"

Run7Calories ==
    FMul(FDiv(FMul(FAdd(FMul(F(18), Literal(975, 100)), Literal(179, 100)),
                   F(75)),
              F(1000)),
         F(60))

\* C7 as stated: RUN [15000, 1, 75] has distance 9.75, speed 9.75 and
\* calories (18*9.75+1.79)*75/1000*60, about 798.86.
C7_AsStated ==
    Run7 => /\ info.distance = Literal(975, 100)
            /\ info.speed = Literal(975, 100)
            /\ info.calories = Run7Calories
            /\ Between(info.calories, 798855, 798865, 1000)

\* C7: RUN [15000, 1, 75] has distance 9.75, speed 9.75 and calories
\* (18*9.75+1.79)*75/1000*60, which is about 797.805.
C7_RunningScenario ==
    Run7 => /\ info.distance = Literal(975, 100)
            /\ info.speed = Literal(975, 100)
            /\ info.calories = Run7Calories
            /\ Between(info.calories, 7978045, 7978055, 10000)

C7_Witness == Run7 /\ shown = 1 /\ info.duration = F(1)

Walk8 ==
    /\ workout_type = "WLK" /\ data = Floats(<<9000, 1, 75, 180>>)
    /\ info.cls = "InfoMessage"

\* C8 as stated: WLK [9000, 1, 75, 180] has distance 5.85, speed 5.85 and
\* calories about 163.0.
C8_AsStated ==
    Walk8 => /\ info.distance = Literal(585, 100)
             /\ info.speed = Literal(585, 100)
             /\ Between(info.calories, 16295, 16305, 100)

\* C8: WLK [9000, 1, 75, 180] has distance 5.85, speed 5.85 and calories,
\* by the walking formula, about 349.252.
C8_WalkingScenario ==
    Walk8 => /\ info.distance = Literal(585, 100)
             /\ info.speed = Literal(585, 100)
             /\ Between(info.calories, 3492515, 3492525, 10000)

C8_Witness == Walk8 /\ shown = 1 /\ info.duration = F(1)

Implausible ==
    /\ pc = "ready" /\ shown > 0
    /\ IsZero(training.duration) \/ FNegative(training.weight)

Abnormal(x) == x.cls \in {"inf", "nan"} \/ FNegative(x)

C10_SwimmingSpeedIgnoresAction ==
    (/\ pc = "ready" /\ training.cls = "Swimming"
     /\ ~IsZero(training.duration) /\ ret.cls = "ret")
        => /\ ret.op = "get_mean_speed"
                  => /\ ret.val = FDiv(FDiv(FMul(data[4], data[5]), F(1000)),
                                       data[2])
                     /\ \A a \in {F(1), F(720)}, w \in {F(-75), F(80), Tiny} :
                           get_mean_speed([training EXCEPT !.action = a,
                                                           !.weight = w])
                               = ret.val
           /\ ret.op = "get_distance"
                  => ret.val = FDiv(FMul(data[1], Literal(138, 100)), F(1000))

C10_Witness ==
    /\ pc = "ready" /\ training.cls = "Swimming"
    /\ ret.cls = "ret" /\ ret.op = "get_mean_speed"
    /\ training.action = F(1) /\ training.weight = F(80)
    /\ ret.val = F(1)
    /\ ret.val # FDiv(get_distance(training), training.duration)

Fails(p) ==
    \E t \in {read_package(p[1], p[2])} :
        IsRaise(t) \/ IsRaise(show_training_info(t))

Report(p) == get_message(show_training_info(read_package(p[1], p[2])))

\* the first package that fails, or one past the last
FirstFailure ==
    CHOOSE k \in 1..(Len(packages) + 1) :
        /\ k <= Len(packages) => Fails(packages[k])
        /\ \A j \in 1..(k - 1) : ~Fails(packages[j])

\* C4: at every point of the loop stdout holds the reports of the packages
\* before the one at hand, one line each and in their order; a package that
\* fails ends the run with no line for it or for any after it.
C4_StdoutIsPrefixOfReports ==
    /\ Len(stdout) < FirstFailure
    /\ \A k \in 1..Len(stdout) : stdout[k] = Report(packages[k])
    /\ pc \in {"read_package", "main"} => Len(stdout) = i - 1
    /\ pc = "raised" => (i = FirstFailure /\ Len(stdout) = i - 1)
    /\ pc = "done" => Len(stdout) = Len(packages)

C4_Witness ==
    /\ pc = "raised" /\ exc = "ZeroDivisionError"
    /\ i = 1 /\ Len(packages) = 2 /\ ~Fails(packages[2])
    /\ stdout = <<>>

=============================================================================
